---- MODULE Spec2Model ----
(***************************************************************************)
(* Character-level sequence-to-sequence translator                         *)
(* (sec3-5-seq-to-seq-model.ipynb): corpus preprocessing, vocabulary       *)
(* indices, one-hot vectorization and the greedy decoder decode_sentence.  *)
(* Characters are their code points; strings are sequences of code points. *)
(* The trained networks are opaque: the decoder may answer any             *)
(* distribution, and a recurrent state is named by the call that made it.  *)
(***************************************************************************)
EXTENDS Integers, Sequences, FiniteSets, TLC

\* ------------------------------------------------------------------------
\* Bounds of the model and the inputs it draws from
\* ------------------------------------------------------------------------
MaxLines == 2
MaxSentenceLen == 3
\* cap on the length of decoded_sentence (above every length the loop reaches)
StepCap == 6

\* '\t' and '\n', the start and end markers of a target sequence
TAB == 9
NL == 10
num_samples == 20000

\* source texts and target texts a corpus line is made of ('a' = 97, 'b' = 98)
SrcTexts == {<<>>, <<97>>, <<98>>, <<98, 97>>}
TgtTexts == {<<>>, <<97>>}
\* characters of an input sentence to translate ('c' = 99 is in no corpus)
InferChars == {97, 99}
\* values a decoder output may take at one alphabet index
ProbLevels == {1, 2}

Strings(S, n) == UNION {[1..k -> S] : k \in 0..n}
CorpusLines == {x \o <<TAB>> \o y : x \in SrcTexts, y \in TgtTexts}
Corpora == UNION {[1..k -> CorpusLines] : k \in 0..MaxLines}
Sentences == Strings(InferChars, MaxSentenceLen)

\* ------------------------------------------------------------------------
\* Helpers
\* ------------------------------------------------------------------------
Range(s) == {s[i] : i \in DOMAIN s}
Min(a, b) == IF a < b THEN a ELSE b
SetMin(S) == CHOOSE m \in S : \A x \in S : m <= x

\* line.split('\t') of a line holding exactly one TAB
TabPos(line) == CHOOSE i \in 1..Len(line) : line[i] = TAB /\ \A j \in 1..(i - 1) : line[j] # TAB
SplitX(line) == SubSeq(line, 1, TabPos(line) - 1)
SplitY(line) == SubSeq(line, TabPos(line) + 1, Len(line))

\* y_seq = '\t' + y_seq + '\n'
WrapTarget(y) == <<TAB>> \o y \o <<NL>>

\* sorted(list(chars)): ascending code points
RECURSIVE Sorted(_)
Sorted(S) == IF S = {} THEN <<>>
             ELSE LET m == SetMin(S) IN <<m>> \o Sorted(S \ {m})

\* enumerate(chars): the 0-based position i of the i-th character
EnumerateFrom1(chars) == [i \in DOMAIN chars |-> <<i, chars[i]>>]
Enumerate(chars) == [i \in DOMAIN chars |-> <<i - 1, chars[i]>>]

\* dict([(char, i) for i, char in enumerate(chars)]): a later pair overrides
DictLastIndex(pairs, key) ==
    LET hits == {j \in DOMAIN pairs : pairs[j][2] = key}
    IN  pairs[CHOOSE j \in hits : \A k \in hits : k <= j][1]
TokenIndex(chars) ==
    LET pairs == Enumerate(chars)
    IN  [c \in Range(chars) |-> DictLastIndex(pairs, c)]

\* dict((i, char) for char, i in token_index.items())
ReverseIndex(token_index) ==
    [i \in {token_index[c] : c \in DOMAIN token_index} |->
        CHOOSE c \in DOMAIN token_index : token_index[c] = i]

\* max([len(txt) for txt in texts]); max() of an empty list raises ValueError
MaxLenDefault0(texts) ==
    IF Len(texts) = 0 THEN [ok |-> TRUE, value |-> 0]
    ELSE [ok |-> TRUE,
          value |-> CHOOSE m \in {Len(texts[i]) : i \in DOMAIN texts} :
                       \A i \in DOMAIN texts : Len(texts[i]) <= m]
MaxLen(texts) ==
    IF Len(texts) = 0 THEN [ok |-> FALSE, value |-> 0]
    ELSE [ok |-> TRUE,
          value |-> CHOOSE m \in {Len(texts[i]) : i \in DOMAIN texts} :
                       \A i \in DOMAIN texts : Len(texts[i]) <= m]

\* ------------------------------------------------------------------------
\* One-hot tensors: shape and data; data[i][t][k] with t, k counted from 0
\* ------------------------------------------------------------------------
Unallocated == [shape |-> <<>>, data |-> <<>>]
ZeroRow(K) == [k \in 0..(K - 1) |-> 0]
OneHotRow(K, j) == [k \in 0..(K - 1) |-> IF k = j THEN 1 ELSE 0]
\* np.zeros((n, T, K))
Zeros(n, T, K) == [shape |-> <<n, T, K>>,
                   data |-> [i \in 1..n |-> [t \in 0..(T - 1) |-> ZeroRow(K)]]]

\* for t, char in enumerate(seq): data[i, t, index[char]] = 1.
InputRowsOffByOne(seq, T, K, index) ==
    [t \in 0..(T - 1) |->
        IF 0 < t /\ t <= Len(seq) THEN OneHotRow(K, index[seq[t]]) ELSE ZeroRow(K)]
InputRows(seq, T, K, index) ==
    [t \in 0..(T - 1) |->
        IF t < Len(seq) THEN OneHotRow(K, index[seq[t + 1]]) ELSE ZeroRow(K)]

\* if t > 0: decoder_target_data[i, t - 1, index[char]] = 1.
TargetRowsUnshifted(seq, T, K, index) ==
    [t \in 0..(T - 1) |->
        IF t < Len(seq) THEN OneHotRow(K, index[seq[t + 1]]) ELSE ZeroRow(K)]
TargetRows(seq, T, K, index) ==
    [t \in 0..(T - 1) |->
        IF t + 1 < Len(seq) THEN OneHotRow(K, index[seq[t + 2]]) ELSE ZeroRow(K)]

\* ------------------------------------------------------------------------
\* decode_sentence helpers
\* ------------------------------------------------------------------------
\* The first position of the sentence at which
\*   input_seq[0, t, input_token_index[char]] = 1.
\* raises: the subscript is evaluated first (KeyError for a character that
\* is not in the index), the store second (IndexError for t outside axis 1).
FailingPositionsUnknownOnly(sentence, T, index) ==
    {t \in 0..(Len(sentence) - 1) : sentence[t + 1] \notin DOMAIN index}
FailingPositions(sentence, T, index) ==
    {t \in 0..(Len(sentence) - 1) : sentence[t + 1] \notin DOMAIN index \/ t >= T}
FailingPositionsDefault(sentence, T, index) ==
    {t \in 0..(Len(sentence) - 1) : t >= T}

\* input_token_index[char], and a dict.get(char, 0) in its place
LookupDefault(index, char) == IF char \in DOMAIN index THEN index[char] ELSE 0
Lookup(index, char) == index[char]

SentenceRows(seq, T, K, index) ==
    [t \in 0..(T - 1) |->
        IF t < Len(seq) THEN OneHotRow(K, Lookup(index, seq[t + 1])) ELSE ZeroRow(K)]

\* Lines 563-566: input_seq and the exception raised while filling it
VectorizeSentenceDefault(sentence, T, K, index) ==
    LET bad == FailingPositionsDefault(sentence, T, index)
    IN  IF bad = {}
        THEN [err |-> "none",
              input_seq |-> [shape |-> <<1, T, K>>,
                             data |-> <<[t \in 0..(T - 1) |->
                                 IF t < Len(sentence)
                                 THEN OneHotRow(K, LookupDefault(index, sentence[t + 1]))
                                 ELSE ZeroRow(K)]>>]]
        ELSE LET t0 == SetMin(bad)
             IN  [err |-> "IndexError",
                  input_seq |-> [shape |-> <<1, T, K>>,
                                 data |-> <<[t \in 0..(T - 1) |->
                                     IF t < t0
                                     THEN OneHotRow(K, LookupDefault(index, sentence[t + 1]))
                                     ELSE ZeroRow(K)]>>]]
VectorizeSentence(sentence, T, K, index) ==
    LET bad == FailingPositions(sentence, T, index)
    IN  IF bad = {}
        THEN [err |-> "none",
              input_seq |-> [shape |-> <<1, T, K>>,
                             data |-> <<SentenceRows(sentence, T, K, index)>>]]
        ELSE LET t0 == SetMin(bad)
             IN  [err |-> IF sentence[t0 + 1] \notin DOMAIN index
                          THEN "KeyError" ELSE "IndexError",
                  input_seq |-> [shape |-> <<1, T, K>>,
                                 data |-> <<SentenceRows(SubSeq(sentence, 1, t0),
                                                         T, K, index)>>]]

\* np.argmax(output_tokens[0, -1, :]): a scan from index 0 that keeps the
\* first maximum (a later element replaces it only when strictly greater)
RECURSIVE ArgMaxScanLast(_, _, _)
ArgMaxScanLast(v, k, best) ==
    IF k \notin DOMAIN v THEN best
    ELSE ArgMaxScanLast(v, k + 1, IF v[k] >= v[best] THEN k ELSE best)
RECURSIVE ArgMaxScan(_, _, _)
ArgMaxScan(v, k, best) ==
    IF k \notin DOMAIN v THEN best
    ELSE ArgMaxScan(v, k + 1, IF v[k] > v[best] THEN k ELSE best)
ArgMaxLast(v) == ArgMaxScanLast(v, 1, 0)
ArgMax(v) == ArgMaxScan(v, 1, 0)

\* stop_condition = False before the loop
InitialStopTrue == TRUE
InitialStop == FALSE

\* sampled_char == '\n' or len(decoded_sentence) > max_decoder_seq_length
StopCheckNoLength(sampled, decoded, maxlen) == sampled = NL
StopCheckLate(sampled, decoded, maxlen) == sampled = NL \/ Len(decoded) > maxlen + 1
StopCheck(sampled, decoded, maxlen) == sampled = NL \/ Len(decoded) > maxlen

\* the recurrent state returned by encoder_model.predict, and the [h, c]
\* returned by the k-th decoder_model.predict of a call
EncoderState == [by |-> "encoder", step |-> 0]
DecoderStateStale(k) == EncoderState
DecoderState(k) == [by |-> "decoder", step |-> k]
NoState == [by |-> "nobody", step |-> 0]

VARIABLES
    pc,                       \* the cell (or decode_sentence position) to run next
    err,                      \* the exception that ended the run or the last call
    lines,                    \* the corpus lines read from the file
    inputs, targets,          \* the (x, y) pairs
    input_chars, target_chars,
    num_encoder_tokens, num_decoder_tokens,
    max_encoder_seq_length, max_decoder_seq_length,
    input_token_index, target_token_index,
    encoder_input_data, decoder_input_data, decoder_target_data,
    reverse_input_char_index, reverse_target_char_index,
    \* decode_sentence: its argument, its locals and its outcome
    input_sentence, input_seq, states_value, target_seq,
    stop_condition, decoded_sentence,
    output_tokens, sampled_token_index, sampled_char,
    outcome,                  \* "none", "running", "returned" or "raised"
    result,                   \* the string the last call returned
    encoder_calls,            \* encoder_model.predict calls of the current call
    decoder_calls,            \* decoder_model.predict calls of the current call
    decoder_args              \* [target_seq] + states_value of the last such call

corpus_vars == <<lines, inputs, targets, input_chars, target_chars,
                 num_encoder_tokens, num_decoder_tokens,
                 max_encoder_seq_length, max_decoder_seq_length,
                 input_token_index, target_token_index,
                 encoder_input_data, decoder_input_data, decoder_target_data,
                 reverse_input_char_index, reverse_target_char_index>>

decode_vars == <<input_sentence, input_seq, states_value, target_seq,
                 stop_condition, decoded_sentence,
                 output_tokens, sampled_token_index, sampled_char,
                 outcome, result, encoder_calls, decoder_calls, decoder_args>>

vars == <<pc, err, corpus_vars, decode_vars>>

\* The state after the file has been read (cell 4): every line is
\* "source TAB target"; nothing else is bound yet.
Init ==
    /\ lines \in Corpora
    /\ pc = "pairs"
    /\ err = "none"
    /\ inputs = <<>> /\ targets = <<>>
    /\ input_chars = {} /\ target_chars = {}
    /\ num_encoder_tokens = 0 /\ num_decoder_tokens = 0
    /\ max_encoder_seq_length = 0 /\ max_decoder_seq_length = 0
    /\ input_token_index = <<>> /\ target_token_index = <<>>
    /\ encoder_input_data = Unallocated
    /\ decoder_input_data = Unallocated
    /\ decoder_target_data = Unallocated
    /\ reverse_input_char_index = <<>> /\ reverse_target_char_index = <<>>
    /\ input_sentence = <<>>
    /\ input_seq = Unallocated
    /\ states_value = NoState
    /\ target_seq = <<>>
    /\ stop_condition = FALSE
    /\ decoded_sentence = <<>>
    /\ output_tokens = <<>>
    /\ sampled_token_index = 0
    /\ sampled_char = 0
    /\ outcome = "none"
    /\ result = <<>>
    /\ encoder_calls = 0
    /\ decoder_calls = 0
    /\ decoder_args = <<>>

\* Cell 6: the (x, y) pairs and the sets of unique characters
GetPairs ==
    /\ pc = "pairs"
    /\ LET used == SubSeq(lines, 1, Min(num_samples, Len(lines)))
       IN  /\ inputs' = [i \in DOMAIN used |-> SplitX(used[i])]
           /\ targets' = [i \in DOMAIN used |-> WrapTarget(SplitY(used[i]))]
    /\ input_chars' = UNION {Range(inputs'[i]) : i \in DOMAIN inputs'}
    /\ target_chars' = UNION {Range(targets'[i]) : i \in DOMAIN targets'}
    /\ pc' = "sizes"
    /\ UNCHANGED <<decode_vars, err, lines, num_encoder_tokens, num_decoder_tokens,
                   max_encoder_seq_length, max_decoder_seq_length,
                   input_token_index, target_token_index,
                   encoder_input_data, decoder_input_data, decoder_target_data,
                   reverse_input_char_index, reverse_target_char_index>>

\* Cell 7: sorted alphabets, their sizes, and the maximum lengths. The four
\* assignments before max() take effect even when max() raises.
Sizes ==
    /\ pc = "sizes"
    /\ input_chars' = Sorted(input_chars)
    /\ target_chars' = Sorted(target_chars)
    /\ num_encoder_tokens' = Len(input_chars')
    /\ num_decoder_tokens' = Len(target_chars')
    /\ LET me == MaxLen(inputs)
           md == MaxLen(targets)
       IN  IF me.ok /\ md.ok
           THEN /\ max_encoder_seq_length' = me.value
                /\ max_decoder_seq_length' = md.value
                /\ pc' = "index"
                /\ err' = err
           ELSE /\ UNCHANGED <<max_encoder_seq_length, max_decoder_seq_length>>
                /\ pc' = "error"
                /\ err' = "ValueError"
    /\ UNCHANGED <<decode_vars, lines, inputs, targets,
                   input_token_index, target_token_index,
                   encoder_input_data, decoder_input_data, decoder_target_data,
                   reverse_input_char_index, reverse_target_char_index>>

\* Cell 8: character -> integer index
MapIndex ==
    /\ pc = "index"
    /\ input_token_index' = TokenIndex(input_chars)
    /\ target_token_index' = TokenIndex(target_chars)
    /\ pc' = "vectorize"
    /\ UNCHANGED <<decode_vars, err, lines, inputs, targets, input_chars, target_chars,
                   num_encoder_tokens, num_decoder_tokens,
                   max_encoder_seq_length, max_decoder_seq_length,
                   encoder_input_data, decoder_input_data, decoder_target_data,
                   reverse_input_char_index, reverse_target_char_index>>

\* Cell 9: the three one-hot tensors
Vectorize ==
    /\ pc = "vectorize"
    /\ LET n == Len(inputs)
       IN  /\ encoder_input_data' =
                [shape |-> <<n, max_encoder_seq_length, num_encoder_tokens>>,
                 data |-> [i \in 1..n |->
                    InputRows(inputs[i], max_encoder_seq_length,
                              num_encoder_tokens, input_token_index)]]
           /\ decoder_input_data' =
                [shape |-> <<n, max_decoder_seq_length, num_decoder_tokens>>,
                 data |-> [i \in 1..n |->
                    InputRows(targets[i], max_decoder_seq_length,
                              num_decoder_tokens, target_token_index)]]
           /\ decoder_target_data' =
                [shape |-> <<n, max_decoder_seq_length, num_decoder_tokens>>,
                 data |-> [i \in 1..n |->
                    TargetRows(targets[i], max_decoder_seq_length,
                               num_decoder_tokens, target_token_index)]]
    /\ pc' = "models"
    /\ UNCHANGED <<decode_vars, err, lines, inputs, targets, input_chars, target_chars,
                   num_encoder_tokens, num_decoder_tokens,
                   max_encoder_seq_length, max_decoder_seq_length,
                   input_token_index, target_token_index,
                   reverse_input_char_index, reverse_target_char_index>>

\* Cells 10-14: the networks are built and trained; their weights are opaque
BuildModels ==
    /\ pc = "models"
    /\ pc' = "reverse"
    /\ UNCHANGED <<err, corpus_vars, decode_vars>>

\* Cell 15: integer index -> character
MapReverse ==
    /\ pc = "reverse"
    /\ reverse_input_char_index' = ReverseIndex(input_token_index)
    /\ reverse_target_char_index' = ReverseIndex(target_token_index)
    /\ pc' = "ready"
    /\ UNCHANGED <<decode_vars, err, lines, inputs, targets, input_chars, target_chars,
                   num_encoder_tokens, num_decoder_tokens,
                   max_encoder_seq_length, max_decoder_seq_length,
                   input_token_index, target_token_index,
                   encoder_input_data, decoder_input_data, decoder_target_data>>

\* decode_sentence(input_sentence), lines 563-575: the sentence is
\* vectorized, the encoder gives the initial state, target_seq holds the
\* start character. An exception ends the call before the encoder runs.
\* Calls share nothing but the read-only indices and sizes, so a behaviour
\* follows one call.
DecodeCall(sentence) ==
    /\ pc = "ready"
    /\ outcome = "none"
    /\ input_sentence' = sentence
    /\ LET v == VectorizeSentence(sentence, max_encoder_seq_length,
                                  num_encoder_tokens, input_token_index)
       IN  /\ input_seq' = v.input_seq
           /\ IF v.err # "none"
              THEN /\ err' = v.err
                   /\ outcome' = "raised"
                   /\ pc' = "ready"
                   /\ encoder_calls' = 0
                   /\ states_value' = NoState
                   /\ target_seq' = <<>>
              ELSE /\ err' = "none"
                   /\ outcome' = "running"
                   /\ pc' = "loop"
                   /\ encoder_calls' = 1
                   /\ states_value' = EncoderState
                   /\ target_seq' = OneHotRow(num_decoder_tokens,
                                              target_token_index[TAB])
    /\ stop_condition' = InitialStop
    /\ decoded_sentence' = <<>>
    /\ output_tokens' = <<>>
    /\ sampled_token_index' = 0
    /\ sampled_char' = 0
    /\ result' = <<>>
    /\ decoder_calls' = 0
    /\ decoder_args' = <<>>
    /\ UNCHANGED corpus_vars

\* One pass of the while loop, lines 576-592; probs is what the decoder
\* answers for output_tokens[0, -1, :]
DecodeStep(probs) ==
    /\ pc = "loop"
    /\ ~stop_condition
    /\ Len(decoded_sentence) < StepCap
    /\ decoder_args' = [target_seq |-> target_seq, states_value |-> states_value]
    /\ output_tokens' = probs
    /\ decoder_calls' = decoder_calls + 1
    /\ sampled_token_index' = ArgMax(probs)
    /\ sampled_char' = reverse_target_char_index[sampled_token_index']
    /\ decoded_sentence' = Append(decoded_sentence, sampled_char')
    /\ stop_condition' = (stop_condition \/
                          StopCheck(sampled_char', decoded_sentence',
                                    max_decoder_seq_length))
    /\ target_seq' = OneHotRow(num_decoder_tokens, sampled_token_index')
    /\ states_value' = DecoderState(decoder_calls')
    /\ UNCHANGED <<pc, err, corpus_vars, input_sentence, input_seq,
                   outcome, result, encoder_calls>>

\* The loop is left and decoded_sentence returned, line 594
DecodeReturn ==
    /\ pc = "loop"
    /\ stop_condition
    /\ result' = decoded_sentence
    /\ outcome' = "returned"
    /\ pc' = "ready"
    /\ UNCHANGED <<err, corpus_vars, input_sentence, input_seq, states_value,
                   target_seq, stop_condition, decoded_sentence, output_tokens,
                   sampled_token_index, sampled_char,
                   encoder_calls, decoder_calls, decoder_args>>

Next ==
    \/ GetPairs
    \/ Sizes
    \/ MapIndex
    \/ Vectorize
    \/ BuildModels
    \/ MapReverse
    \/ \E sentence \in Sentences : DecodeCall(sentence)
    \/ \E probs \in [0..(num_decoder_tokens - 1) -> ProbLevels] : DecodeStep(probs)
    \/ DecodeReturn

Spec == Init /\ [][Next]_vars

\* ------------------------------------------------------------------------
\* Properties
\* ------------------------------------------------------------------------
InCall == outcome \in {"running", "returned"}
UnknownPositions == {t \in 0..(Len(input_sentence) - 1) :
                        input_sentence[t + 1] \notin DOMAIN input_token_index}

\* C1: the greedy loop of decode_sentence ends after at most
\* max_decoder_seq_length + 1 steps: every pass appends one character, the
\* loop can always go on to its next pass or to its return, it has stopped
\* once max_decoder_seq_length + 1 characters are there, and it stops only on
\* a sampled '\n' or on a length above max_decoder_seq_length.
C1_LoopBounded ==
    pc = "loop" =>
        /\ Len(decoded_sentence) <= max_decoder_seq_length + 1
        /\ (Len(decoded_sentence) = max_decoder_seq_length + 1 => stop_condition)
        /\ (stop_condition =>
               \/ sampled_char = NL
               \/ Len(decoded_sentence) > max_decoder_seq_length)
        /\ (~stop_condition => Len(decoded_sentence) < StepCap)
        /\ ENABLED Next
C1_Witness ==
    /\ outcome = "returned"
    /\ sampled_char # NL
    /\ Len(result) = max_decoder_seq_length + 1
    /\ max_decoder_seq_length = 3

\* C2 (as claimed): when the end marker is sampled, the returned text is the
\* characters sampled before it, without the end marker.
C2_EndMarkerExcluded ==
    (outcome = "returned" /\ sampled_char = NL) =>
        result = SubSeq(decoded_sentence, 1, Len(decoded_sentence) - 1)

\* C3 (as claimed): the returned text holds no start marker '\t'.
C3_NoStartMarker ==
    outcome = "returned" => TAB \notin Range(result)

\* C4 (as claimed): the loop body runs at most max_decoder_seq_length times.
C4_AtMostMaxSteps ==
    InCall => decoder_calls <= max_decoder_seq_length
\* C4 (amended): the loop body, one decoder_model.predict call and one
\* appended character, runs at most max_decoder_seq_length + 1 times, and
\* exactly that often when no end marker is sampled.
C4_AtMostMaxPlusOneSteps ==
    InCall =>
        /\ decoder_calls = Len(decoded_sentence)
        /\ decoder_calls <= max_decoder_seq_length + 1
        /\ (outcome = "returned" /\ NL \notin Range(decoded_sentence)
               => decoder_calls = max_decoder_seq_length + 1)
C4_Witness ==
    /\ outcome = "returned"
    /\ decoder_calls = max_decoder_seq_length + 1
    /\ NL \notin Range(decoded_sentence)

\* C5: after vectorization, decoder_target_data[i, t] equals
\* decoder_input_data[i, t + 1] when t + 1 is within the length of the
\* wrapped target text, and is all-zero otherwise.
C5_ShiftAndTruncate ==
    decoder_target_data # Unallocated =>
        \A i \in DOMAIN targets : \A t \in 0..(max_decoder_seq_length - 1) :
            IF t + 1 < Len(targets[i])
            THEN decoder_target_data.data[i][t] = decoder_input_data.data[i][t + 1]
            ELSE decoder_target_data.data[i][t] = ZeroRow(num_decoder_tokens)
C5_Witness ==
    /\ decoder_target_data # Unallocated
    /\ \E i \in DOMAIN targets : Len(targets[i]) < max_decoder_seq_length
    /\ \E i \in DOMAIN targets : Len(targets[i]) = max_decoder_seq_length

\* C6: the sampled character is the one at the lowest alphabet index that
\* holds the maximum of the decoder's output.
C6_ArgMaxLowestIndex ==
    (InCall /\ decoder_calls > 0) =>
        /\ sampled_token_index \in DOMAIN output_tokens
        /\ \A k \in DOMAIN output_tokens :
              /\ output_tokens[k] <= output_tokens[sampled_token_index]
              /\ (k < sampled_token_index
                    => output_tokens[k] < output_tokens[sampled_token_index])
        /\ sampled_char = target_chars[sampled_token_index + 1]
C6_Witness ==
    /\ InCall /\ decoder_calls > 0
    /\ sampled_token_index > 0
    /\ \E k \in DOMAIN output_tokens :
          /\ k > sampled_token_index
          /\ output_tokens[k] = output_tokens[sampled_token_index]

\* C7: on each side, index-to-char undoes char-to-index, and the indices
\* are the range 0..N-1 without duplicates, N the number of distinct
\* characters of that side of the corpus.
SideIsBijection(texts, token_index, reverse_index) ==
    LET chars == UNION {Range(texts[i]) : i \in DOMAIN texts}
        N == Cardinality(chars)
    IN  /\ DOMAIN token_index = chars
        /\ \A c \in chars : reverse_index[token_index[c]] = c
        /\ {token_index[c] : c \in chars} = 0..(N - 1)
        /\ \A c, d \in chars : token_index[c] = token_index[d] => c = d
C7_VocabularyBijection ==
    pc \in {"ready", "loop"} =>
        /\ SideIsBijection(inputs, input_token_index, reverse_input_char_index)
        /\ SideIsBijection(targets, target_token_index, reverse_target_char_index)
C7_Witness ==
    /\ pc = "ready"
    /\ num_encoder_tokens = 2
    /\ num_decoder_tokens = 3

\* C8 (as claimed): a sentence with a character that is not in the source
\* index ends in the out-of-vocabulary error (the KeyError of the lookup).
C8_AlwaysKeyError ==
    (outcome # "none" /\ UnknownPositions # {}) =>
        /\ outcome = "raised"
        /\ err = "KeyError"
        /\ encoder_calls = 0
\* C8 (amended): such a call ends in an error before the encoder is run, no
\* row is set for the unknown character and nothing is returned; the error
\* is the KeyError of the lookup when the first unknown character is at a
\* position <= max_encoder_seq_length, and otherwise the IndexError of the
\* store at position max_encoder_seq_length.
C8_UnknownCharRaises ==
    (outcome # "none" /\ UnknownPositions # {}) =>
        /\ outcome = "raised"
        /\ encoder_calls = 0 /\ decoder_calls = 0
        /\ result = <<>>
        /\ \A t \in UnknownPositions :
              t < max_encoder_seq_length
                 => input_seq.data[1][t] = ZeroRow(num_encoder_tokens)
        /\ IF SetMin(UnknownPositions) <= max_encoder_seq_length
           THEN err = "KeyError" ELSE err = "IndexError"
C8_Witness ==
    /\ outcome = "raised"
    /\ err = "KeyError"
    /\ UnknownPositions = {1}
    /\ max_encoder_seq_length = 2

C10_EmptySentenceValid ==
    (outcome # "none" /\ input_sentence = <<>>) =>
        /\ InCall
        /\ err = "none"
        /\ input_seq = Zeros(1, max_encoder_seq_length, num_encoder_tokens)
        /\ encoder_calls = 1
        /\ (outcome = "returned" => decoder_calls >= 1 /\ Len(result) >= 1)
C10_Witness ==
    /\ outcome = "returned"
    /\ input_sentence = <<>>
    /\ max_encoder_seq_length > 0
    /\ decoder_calls >= 1

\* Reading a one-hot tensor back: in time order, the character that the
\* reverse index gives for the non-zero position of each row that has one.
NonZero(row) == {k \in DOMAIN row : row[k] # 0}
RECURSIVE ReadBackFrom(_, _, _)
ReadBackFrom(rows, t, reverse_index) ==
    IF t \notin DOMAIN rows THEN <<>>
    ELSE (IF NonZero(rows[t]) = {} THEN <<>>
          ELSE <<reverse_index[SetMin(NonZero(rows[t]))]>>)
         \o ReadBackFrom(rows, t + 1, reverse_index)
ReadBack(rows, reverse_index) == ReadBackFrom(rows, 0, reverse_index)

\* C11 (as claimed): any sentence made only of characters of the source
\* alphabet is reproduced by reading back the tensor decode_sentence fills.
C11_RoundTripAnyString ==
    (outcome # "none" /\ UnknownPositions = {}) =>
        ReadBack(input_seq.data[1], reverse_input_char_index) = input_sentence
\* C11 (amended): a string made only of alphabet characters and no longer
\* than the time axis of the tensor is reproduced by reading the tensor
\* back: every source and wrapped target text of the corpus, and every
\* sentence of at most max_encoder_seq_length known characters.
C11_RoundTripWithinLength ==
    /\ pc \in {"ready", "loop"} =>
          \A i \in DOMAIN inputs :
             /\ ReadBack(encoder_input_data.data[i], reverse_input_char_index)
                   = inputs[i]
             /\ ReadBack(decoder_input_data.data[i], reverse_target_char_index)
                   = targets[i]
    /\ (outcome # "none" /\ UnknownPositions = {}
           /\ Len(input_sentence) <= max_encoder_seq_length) =>
          /\ err = "none"
          /\ ReadBack(input_seq.data[1], reverse_input_char_index) = input_sentence
C11_Witness ==
    /\ outcome = "running"
    /\ Len(input_sentence) = 2
    /\ \E i \in DOMAIN inputs : inputs[i] = <<98, 97>>
    /\ \E i \in DOMAIN inputs : Len(inputs[i]) < max_encoder_seq_length
    /\ ReadBack(input_seq.data[1], reverse_input_char_index) = <<97, 97>>

\* C12: in a call of decode_sentence the encoder has run exactly once,
\* before the first step; the first decoder call gets the one-hot of '\t' and
\* the encoder's state; the decoder call of every later step gets the
\* one-hot of the character sampled by the step before and the state that
\* step returned; and the loop holds just these two for the next step.
StartOneHot == OneHotRow(num_decoder_tokens, target_token_index[TAB])
CharOneHot(char) == OneHotRow(num_decoder_tokens, target_token_index[char])
C12_StateThreading ==
    InCall =>
        /\ encoder_calls = 1
        /\ decoder_calls = 0 =>
              /\ target_seq = StartOneHot
              /\ states_value = [by |-> "encoder", step |-> 0]
        /\ decoder_calls = 1 =>
              /\ decoder_args.target_seq = StartOneHot
              /\ decoder_args.states_value = [by |-> "encoder", step |-> 0]
        /\ decoder_calls > 1 =>
              /\ decoder_args.target_seq =
                    CharOneHot(decoded_sentence[decoder_calls - 1])
              /\ decoder_args.states_value =
                    [by |-> "decoder", step |-> decoder_calls - 1]
        /\ decoder_calls >= 1 =>
              /\ target_seq = CharOneHot(decoded_sentence[decoder_calls])
              /\ states_value = [by |-> "decoder", step |-> decoder_calls]
C12_Witness ==
    /\ InCall
    /\ decoder_calls = 3
    /\ decoded_sentence[1] # decoded_sentence[2]
    /\ decoder_args.target_seq = CharOneHot(decoded_sentence[2])
    /\ decoder_args.states_value.step = 2

\* C13: decode_sentence gives a translation only for sentences of at most
\* max_encoder_seq_length characters; a longer sentence of known characters
\* ends in the IndexError of the write at position max_encoder_seq_length
\* (the rows before it are filled), before the encoder or the decoder runs.
C13_LongSentenceRaises ==
    /\ InCall => Len(input_sentence) <= max_encoder_seq_length
    /\ (outcome # "none" /\ UnknownPositions = {}
           /\ Len(input_sentence) > max_encoder_seq_length) =>
          /\ outcome = "raised"
          /\ err = "IndexError"
          /\ encoder_calls = 0 /\ decoder_calls = 0
          /\ result = <<>>
          /\ input_seq.shape = <<1, max_encoder_seq_length, num_encoder_tokens>>
          /\ ReadBack(input_seq.data[1], reverse_input_char_index)
                = SubSeq(input_sentence, 1, max_encoder_seq_length)
C13_Witness ==
    /\ outcome = "raised"
    /\ err = "IndexError"
    /\ UnknownPositions = {}
    /\ max_encoder_seq_length = 2
    /\ Len(input_sentence) = 3

====
